---- MODULE Spec2Model ----
(***************************************************************************)
(* Model of the RAG assistant's storage layer and its two orchestrators:   *)
(*   src/infrastructure/vector_stores/postgres_vector_store.py             *)
(*   src/services/ingestion_service.py                                     *)
(*   src/services/query_service.py                                         *)
(* PostgresVectorStore.__init__ / add / query over the document_chunks     *)
(* table (ChunkModel), with the PostgreSQL/pgvector behaviour the code     *)
(* relies on: a fixed-width vector column, a primary key on id, one        *)
(* transaction per add, one SELECT per query, ORDER BY cosine distance.    *)
(*                                                                         *)
(* Spec     : the store driven by one caller; add and query are whole      *)
(*            calls.                                                       *)
(* SpecConc : add is split at its transaction boundary (session opened,    *)
(*            then commit or rollback) so that a query of another caller   *)
(*            can run in between.                                          *)
(* SpecSessions : as SpecConc, with query split as well, where its session *)
(*            is opened, to follow every session from open to close.       *)
(* SpecIngest : one run_ingestion over a constructed store, a step per     *)
(*            collaborator call (load, split, embed a batch, add a batch), *)
(*            and the exit of the entry point scripts/run_ingestion.py.    *)
(* SpecQuery : one QueryService.query over a store that has been filled,   *)
(*            a step per collaborator call (embed, retrieve, generate).    *)
(***************************************************************************)
EXTENDS Integers, Sequences, FiniteSets, TLC

VARIABLES
    settingsDim,    \* settings.embedding_dimension, read when ChunkModel is declared
    schemaWidth,    \* width of document_chunks.embedding in the database, 0 = no table
    store,          \* "new" | "ready" | "failed" : outcome of __init__
    embedding_dim,  \* self._embedding_dim
    rows,           \* committed rows of document_chunks
    txn,            \* the session of the add call in progress / most recent
    openSessions,   \* sessions opened by SessionLocal() and not yet closed
    last,           \* what the caller of the most recent call passed and got back
    ingest,         \* IngestionService.run_ingestion: its locals, its calls, its outcome
    ask             \* QueryService.query: its locals, its calls, its outcome

vars == <<settingsDim, schemaWidth, store, embedding_dim, rows, txn, openSessions, last,
          ingest, ask>>

----------------------------------------------------------------------------
(* Bounds of the model *)

MaxDim == 2      \* dimensions 1..MaxDim for settings, schema and provider
MaxBatch == 2    \* longest batch passed to add
MaxTopK == 2     \* top_k ranges over -1..MaxTopK
MaxDocs == 2     \* documents the loader returns
MaxWindows == 2  \* text windows the splitter makes of one document
MaxBatchSize == 2  \* batch_size of the ingestion service, 1..MaxBatchSize
MaxFaults == 1   \* collaborator calls of one run that fail inside the batch loop

Dims == 1..MaxDim
ChunkIds == {1, 2}    \* the chunk ids (DocumentChunk.id) the callers use
TopKs == (-1)..MaxTopK

----------------------------------------------------------------------------
(* Data model: src/core/models/document.py *)

\* Optional[List[float]]: None, or a list
NoEmbedding == [present |-> FALSE, vec |-> <<>>]
Emb(v) == [present |-> TRUE, vec |-> v]

\* the vectors the callers use (lengths 1, 2 and 3; a zero vector; two parallel ones)
Vectors == {<<1>>, <<0, 0>>, <<1, 0>>, <<2, 0>>, <<0, 1>>} \cup
           (IF MaxDim > 2 THEN {<<1, 0, 0>>} ELSE {})
EmbeddingInputs == {NoEmbedding} \cup {Emb(v) : v \in Vectors}

\* a metadata entry: key, JSON type of the value, text of the value
Entry(k, t, x) == [key |-> k, type |-> t, text |-> x]

ContentOf(id) == IF id = 1 THEN "alpha" ELSE "beta"
DocumentOf(id) == IF id = 1 THEN "doc1" ELSE "doc2"
MetadataOf(id) == IF id = 1 THEN {Entry("source", "str", "s1"), Entry("chunk_index", "int", "0")}
                  ELSE {Entry("source", "str", "s2"), Entry("reviewed", "bool", "true")}

DocumentChunk(id, document_id, content, metadata, embedding) ==
    [id |-> id, document_id |-> document_id, content |-> content,
     metadata |-> metadata, embedding |-> embedding]

ChunkInputs == {DocumentChunk(id, DocumentOf(id), ContentOf(id), MetadataOf(id), e) :
                    id \in ChunkIds, e \in EmbeddingInputs}

RECURSIVE SeqsUpTo(_, _)
SeqsUpTo(S, n) == IF n = 0 THEN {<<>>}
                  ELSE LET shorter == SeqsUpTo(S, n - 1)
                       IN shorter \cup {Append(s, x) : s \in {t \in shorter : Len(t) = n - 1}, x \in S}

Batches == SeqsUpTo(ChunkInputs, MaxBatch)

Range(s) == {s[i] : i \in 1..Len(s)}

----------------------------------------------------------------------------
(* PostgresVectorStore.add: validation and conversion, lines 96-117 *)

\* a chunk without embedding passes (the length is tested only when there is one)
IsValidChunkAbsentAccepted(chunk, dim) ==
    chunk.embedding.present => Len(chunk.embedding.vec) = dim

\* lines 99-104: a chunk is kept iff its embedding is present and has the store's dimension
IsValidChunk(chunk, dim) ==
    /\ chunk.embedding.present
    /\ Len(chunk.embedding.vec) = dim

\* lines 106-112: ChunkModel(id=..., document_id=..., content=...,
\*                           chunk_metadata=chunk.metadata or {}, embedding=...)
ChunkModel(chunk) ==
    [id |-> chunk.id, document_id |-> chunk.document_id, content |-> chunk.content,
     chunk_metadata |-> chunk.metadata,     \* "or {}": metadata is a dict, never None
     embedding |-> chunk.embedding]

\* the loop of lines 98-113: chunk_models, in input order
ChunkModels(chunks, dim) ==
    LET kept == SelectSeq(chunks, LAMBDA c : IsValidChunk(c, dim))
    IN [i \in 1..Len(kept) |-> ChunkModel(kept[i])]

AddedIdsOfWholeBatch(chunks, dim) == [i \in 1..Len(chunks) |-> chunks[i].id]

AddedIdsNewestFirst(chunks, dim) ==
    LET kept == SelectSeq(chunks, LAMBDA c : IsValidChunk(c, dim))
    IN [i \in 1..Len(kept) |-> kept[Len(kept) + 1 - i].id]

\* line 113: added_ids, appended in step with chunk_models
AddedIds(chunks, dim) ==
    LET kept == SelectSeq(chunks, LAMBDA c : IsValidChunk(c, dim))
    IN [i \in 1..Len(kept) |-> kept[i].id]

----------------------------------------------------------------------------
(* The database under session.add_all / session.commit, lines 119-132 *)

\* the constraints of ChunkModel (lines 28-34) that make the INSERTs of one flush fail:
\* a vector of another length than the column's width, a primary key already
\* present, or the same primary key twice in the flush.  The column is nullable=True,
\* so an absent embedding is accepted.
ConstraintViolatedWidthOnly(models, committed, width) ==
    \E i \in 1..Len(models) :
        models[i].embedding.present /\ Len(models[i].embedding.vec) # width

ConstraintViolated(models, committed, width) ==
    \/ \E i \in 1..Len(models) :
          models[i].embedding.present /\ Len(models[i].embedding.vec) # width
    \/ \E i \in 1..Len(models) : \E r \in committed : r.id = models[i].id
    \/ \E i, j \in 1..Len(models) : i # j /\ models[i].id = models[j].id

RolledBackKeepsFirst(committed, models) ==
    IF \E r \in committed : r.id = models[1].id THEN committed
    ELSE committed \cup {models[1]}

\* line 129: session.rollback() leaves the table as it was
RolledBack(committed, models) == committed

\* line 124: session.commit() makes every row of the flush visible at once
Committed(committed, models) == committed \cup Range(models)

SnapshotReadsUncommitted(committed, session) ==
    IF session.state = "open" THEN committed \cup {session.models[1]} ELSE committed

\* the rows a SELECT of another session sees: committed rows only
Snapshot(committed, session) == committed

----------------------------------------------------------------------------
(* PostgresVectorStore.query: validation, filter, ranking, conversion *)

\* lines 142-147: "not query_embedding" or a length other than the store's dimension
QueryVectorRejected(query_embedding, dim) ==
    \/ Len(query_embedding) = 0
    \/ Len(query_embedding) # dim

\* Optional[Dict[str, Any]]: None, or a mapping given as its set of entries
NoFilters == [present |-> FALSE, entries |-> {}]
Filters(es) == [present |-> TRUE, entries |-> es]

\* str(value) of Python for a filter value
PyStr(e) == IF e.type = "bool" THEN (IF e.text = "true" THEN "True" ELSE "False")
            ELSE e.text

\* chunk_metadata[key].astext of PostgreSQL (->>): the text of the JSON value
AsText(e) == e.text

MatchesAnyFilter(row, filters) ==
    (filters.present /\ filters.entries # {}) =>
        \E f \in filters.entries :
            \E e \in row.chunk_metadata : e.key = f.key /\ AsText(e) = PyStr(f)

\* lines 158-163: every filter key is present in the row and equal as text
MatchesFilters(row, filters) ==
    (filters.present /\ filters.entries # {}) =>
        \A f \in filters.entries :
            \E e \in row.chunk_metadata : e.key = f.key /\ AsText(e) = PyStr(f)

RECURSIVE DotUpTo(_, _, _)
DotUpTo(a, b, n) == IF n = 0 THEN 0 ELSE DotUpTo(a, b, n - 1) + a[n] * b[n]

Dot(a, b) == DotUpTo(a, b, Len(a))
Norm2(a) == Dot(a, a)

\* pgvector's <=> is 1 - a.b / (|a| |b|): NaN when either vector is zero
DistanceIsNaN(a, q) == Norm2(a) = 0 \/ Norm2(q) = 0

\* a.q / |a| > b.q / |b|, on integers
MoreSimilar(a, b, q) ==
    LET x == Dot(a, q)
        y == Dot(b, q)
    IN IF x >= 0 /\ y < 0 THEN TRUE
       ELSE IF x < 0 /\ y >= 0 THEN FALSE
       ELSE IF x >= 0 THEN x * x * Norm2(b) > y * y * Norm2(a)
       ELSE x * x * Norm2(b) < y * y * Norm2(a)

CloserDescending(a, b, q) ==
    IF DistanceIsNaN(a, q) THEN FALSE
    ELSE IF DistanceIsNaN(b, q) THEN TRUE
    ELSE MoreSimilar(b, a, q)

\* line 168: a sorts strictly before b under ORDER BY embedding <=> q
\* (ascending; PostgreSQL sorts NaN after every number)
Closer(a, b, q) ==
    IF DistanceIsNaN(a, q) THEN FALSE
    ELSE IF DistanceIsNaN(b, q) THEN TRUE
    ELSE MoreSimilar(a, b, q)

Orderings(S) ==
    {s \in [1..Cardinality(S) -> S] : \A i, j \in 1..Cardinality(S) : i # j => s[i] # s[j]}

Min(a, b) == IF a <= b THEN a ELSE b

RankedRowsUnlimited(visible, query_embedding, top_k, filters) ==
    LET matching == {r \in visible : MatchesFilters(r, filters)}
    IN {s \in Orderings(matching) :
           \A i, j \in 1..Len(s) :
               i < j => ~Closer(s[j].embedding.vec, s[i].embedding.vec, query_embedding)}

\* lines 152-170: the rows matching the filters, ordered by distance, the first
\* top_k of them.  Rows at the same distance come in an order SQL leaves open.
RankedRows(visible, query_embedding, top_k, filters) ==
    LET matching == {r \in visible : MatchesFilters(r, filters)}
        ordered == {s \in Orderings(matching) :
                       \A i, j \in 1..Len(s) :
                           i < j => ~Closer(s[j].embedding.vec, s[i].embedding.vec, query_embedding)}
    IN {SubSeq(s, 1, Min(top_k, Len(s))) : s \in ordered}

\* lines 174-182: ChunkModel row -> DocumentChunk
ToDocumentChunk(result) ==
    DocumentChunk(result.id, result.document_id, result.content,
                  result.chunk_metadata, result.embedding)

\* the SELECT fails in the database: a negative LIMIT, or a distance between
\* vectors of different lengths
StatementFails(visible, query_embedding, top_k, filters) ==
    \/ top_k < 0
    \/ \E r \in visible : /\ MatchesFilters(r, filters)
                          /\ Len(r.embedding.vec) # Len(query_embedding)

----------------------------------------------------------------------------
(* What a caller passes and gets back *)

NoCall == [op |-> "none", batch |-> <<>>, embedding |-> <<>>, top_k |-> 0,
           filters |-> NoFilters, ret |-> <<>>, raised |-> FALSE, dbError |-> FALSE,
           seen |-> {}, seenUncommitted |-> {}]

NoTxn == [state |-> "none", models |-> <<>>, ids |-> <<>>]

\* "return x": the caller gets the value, nothing is raised
Returned(value) == [ret |-> value, raised |-> FALSE]

\* "raise": the exception reaches the caller
Raised == [ret |-> <<>>, raised |-> TRUE]

QueryReturnsOrRaisesWhenEmpty(document_chunks) ==
    IF document_chunks = <<>> THEN Raised ELSE Returned(document_chunks)

\* line 183: return document_chunks
QueryReturns(document_chunks) == Returned(document_chunks)

AddCall(chunks, outcome, failed) ==
    [NoCall EXCEPT !.op = "add", !.batch = chunks, !.ret = outcome.ret,
                   !.raised = outcome.raised, !.dbError = failed]

QueryCall(query_embedding, top_k, filters, outcome, failed, visible, committed) ==
    [NoCall EXCEPT !.op = "query", !.embedding = query_embedding, !.top_k = top_k,
                   !.filters = filters, !.ret = outcome.ret, !.raised = outcome.raised,
                   !.dbError = failed, !.seen = visible,
                   !.seenUncommitted = visible \ committed]

QueryVectors == {<<>>} \cup Vectors
\* the filters the callers use: none, an empty mapping, one key, two keys (a
\* str value against a stored int), a bool value
FilterInputs == {NoFilters, Filters({}), Filters({Entry("source", "str", "s1")}),
                 Filters({Entry("chunk_index", "int", "0")}),
                 Filters({Entry("source", "str", "s1"), Entry("chunk_index", "str", "0")}),
                 Filters({Entry("source", "str", "s2"), Entry("chunk_index", "str", "0")}),
                 Filters({Entry("reviewed", "bool", "true")})}

----------------------------------------------------------------------------
(* IngestionService (src/services/ingestion_service.py): the collaborators'  *)
(* answers and the locals of run_ingestion                                   *)

BatchSizes == 1..MaxBatchSize

\* Document(content=..., metadata={"source": ...}); id is a fresh uuid4.  The second
\* document is a PDF page, with a page number.
Document(k) ==
    [id |-> "doc" \o ToString(k), content |-> "text" \o ToString(k),
     metadata |-> {Entry("source", "str", "s" \o ToString(k))} \cup
                  (IF k = 2 THEN {Entry("page", "int", "1")} ELSE {})]

\* data_loader.load(source): a list of n documents
LoadedDocuments(n) == [k \in 1..n |-> Document(k)]

\* text_splitter.split_text(content): n windows of the content, in order
SplitText(content, n) == [j \in 1..n |-> content \o "/" \o ToString(j)]

EnumerateFromOne(texts) == [p \in 1..Len(texts) |-> [i |-> p, text_chunk |-> texts[p]]]

\* line 75: enumerate(texts) counts from 0
Enumerate(texts) == [p \in 1..Len(texts) |-> [i |-> p - 1, text_chunk |-> texts[p]]]

\* line 78: chunk_metadata[key] = value on the copy of the document's metadata
SetItem(metadata, entry) == {e \in metadata : e.key # entry.key} \cup {entry}

ParentAfterSplitShared(doc, texts) ==
    IF texts = <<>> THEN doc
    ELSE [doc EXCEPT !.metadata =
              SetItem(@, Entry("chunk_index", "int", ToString(Len(texts) - 1)))]

\* line 76: doc.metadata.copy() gives each chunk a dict of its own, so the
\* assignment of line 78 does not reach the document
ParentAfterSplit(doc, texts) == doc

\* lines 75-84: the chunks of one document; DocumentChunk.id is a fresh uuid4,
\* here the position of the chunk among all chunks of the run
ChunksOfDocument(doc, texts, firstId) ==
    LET numbered == Enumerate(texts)
    IN [p \in 1..Len(texts) |->
           DocumentChunk(firstId + p - 1, doc.id, numbered[p].text_chunk,
                         SetItem(doc.metadata,
                                 Entry("chunk_index", "int", ToString(numbered[p].i))),
                         NoEmbedding)]

\* lines 71-84: all_chunks after the first n documents
RECURSIVE AllChunks(_, _, _)
AllChunks(documents, texts, n) ==
    IF n = 0 THEN <<>>
    ELSE LET before == AllChunks(documents, texts, n - 1)
         IN before \o ChunksOfDocument(documents[n], texts[n], Len(before) + 1)

BatchAtOverlapping(all_chunks, i, batch_size) ==
    SubSeq(all_chunks, i + 1, Min(i + batch_size + 1, Len(all_chunks)))

\* line 93: all_chunks[i : i + self.batch_size]
BatchAt(all_chunks, i, batch_size) ==
    SubSeq(all_chunks, i + 1, Min(i + batch_size, Len(all_chunks)))

\* embedding_model.embed_documents(texts): one vector per text, in order (told
\* apart by position), of the dimension the store was constructed with
\* (scripts/run_ingestion.py passes embedding_model.dimension to the store); or an
\* empty list; or one vector too many; or the right number of vectors, the
\* first of them one component too long; or an exception
EmbedOutcomes == {"vectors", "empty", "miscounted", "ragged", "raises"}

EmbedDocuments(texts, dim, outcome) ==
    LET n == IF outcome = "empty" THEN 0
             ELSE IF outcome = "miscounted" THEN Len(texts) + 1
             ELSE Len(texts)
    IN [p \in 1..n |-> [d \in 1..(IF outcome = "ragged" /\ p = 1 THEN dim + 1 ELSE dim) |->
                            IF d = 1 THEN p ELSE 0]]

AttachEmbeddingsReversed(all_chunks, i, batch_size, embeddings) ==
    LET n == Min(Len(BatchAt(all_chunks, i, batch_size)), Len(embeddings))
    IN [p \in 1..Len(all_chunks) |->
           IF p > i /\ p <= i + n
           THEN [all_chunks[p] EXCEPT !.embedding = Emb(embeddings[n + 1 - (p - i)])]
           ELSE all_chunks[p]]

\* lines 105-106: zip(batch_chunks, embeddings), chunk.embedding = embedding; the
\* chunks of the batch are the objects of all_chunks
AttachEmbeddings(all_chunks, i, batch_size, embeddings) ==
    LET n == Min(Len(BatchAt(all_chunks, i, batch_size)), Len(embeddings))
    IN [p \in 1..Len(all_chunks) |->
           IF p > i /\ p <= i + n
           THEN [all_chunks[p] EXCEPT !.embedding = Emb(embeddings[p - i])]
           ELSE all_chunks[p]]

\* what run_ingestion gave its caller, and the level of its last log record
NoOutcome == [kind |-> "none", value |-> FALSE, log |-> "none"]

RunFailsRaising == [kind |-> "raised", value |-> FALSE, log |-> "exception"]

\* lines 64-66: logger.warning, return False
NoDocumentsLoaded == [kind |-> "returned", value |-> FALSE, log |-> "warning"]

\* lines 120-122: except Exception: logger.exception, return False
RunFails == [kind |-> "returned", value |-> FALSE, log |-> "exception"]

NoChunksIsAnError == [kind |-> "returned", value |-> FALSE, log |-> "exception"]

\* lines 85-87: logger.warning, return False
NoChunksCreated == [kind |-> "returned", value |-> FALSE, log |-> "warning"]

\* lines 117-118: return total_chunks_added > 0
RunReturns(total_chunks_added) ==
    [kind |-> "returned", value |-> total_chunks_added > 0, log |-> "info"]


\* a collaborator call of the run: for which batch (the index its first chunk
\* has in all_chunks), how many items it returned (documents, windows, vectors,
\* ids), and whether it raised instead
\* and the chunks it was given (embed_documents gets their contents)
Call(op, i, n, raised, chunks) ==
    [op |-> op, i |-> i, n |-> n, raised |-> raised, chunks |-> chunks]

\* scripts/run_ingestion.py: the exit code of the entry point and what it prints
NotExited == [code |-> -1, message |-> "none"]
Exit(code, message) == [code |-> code, message |-> message]

NoRun == [pc |-> "idle", batch_size |-> 0, documents |-> <<>>, texts |-> <<>>,
          all_chunks |-> <<>>, i |-> 0, total_chunks_added |-> 0,
          calls |-> <<>>, faults |-> 0, outcome |-> NoOutcome, exit |-> NotExited]

----------------------------------------------------------------------------
(* QueryService (src/services/query_service.py): the collaborators' answers  *)
(* and the locals of query                                                   *)

\* lines 19-32: DEFAULT_PROMPT_TEMPLATE, cut at {context} and {query}
DEFAULT_PROMPT_TEMPLATE ==
    [before |-> "\nBased on the following context documents, please answer the user's query.\nProvide a concise and helpful answer grounded in the provided context.\nIf the context doesn't contain the answer, state that you couldn't find relevant information in the documents.\n\nContext Documents:\n---\n",
     between |-> "\n---\n\nUser Query: ",
     after |-> "\n\nAnswer:\n"]

\* lines 107-110: prompt_template.format(context=..., query=...)
Format(template, context, query) ==
    template.before \o context \o template.between \o query \o template.after

\* chunk.metadata.get(key, 'N/A') inside an f-string: str() of the value
MetadataGet(metadata, key) ==
    IF \E e \in metadata : e.key = key
    THEN PyStr(CHOOSE e \in metadata : e.key = key)
    ELSE "N/A"

\* line 100: the block of one retrieved chunk
ContextBlock(chunk) ==
    "Source: " \o MetadataGet(chunk.metadata, "source") \o ", Page: " \o
    MetadataGet(chunk.metadata, "page") \o "\n" \o chunk.content

RECURSIVE JoinBlocksReversed(_, _)
JoinBlocksReversed(chunks, n) ==
    IF n = 0 THEN ""
    ELSE IF n = 1 THEN ContextBlock(chunks[1])
    ELSE ContextBlock(chunks[n]) \o "\n---\n" \o JoinBlocksReversed(chunks, n - 1)

\* lines 99-102: "\n---\n".join(...) over the first n chunks
RECURSIVE JoinBlocks(_, _)
JoinBlocks(chunks, n) ==
    IF n = 0 THEN ""
    ELSE IF n = 1 THEN ContextBlock(chunks[1])
    ELSE JoinBlocks(chunks, n - 1) \o "\n---\n" \o ContextBlock(chunks[n])

ContextStringJoinedOnly(retrieved_chunks) == JoinBlocks(retrieved_chunks, Len(retrieved_chunks))

\* lines 91-102: context_str
ContextString(retrieved_chunks) ==
    IF retrieved_chunks = <<>> THEN "No relevant context documents found."
    ELSE JoinBlocks(retrieved_chunks, Len(retrieved_chunks))

EmbeddingMissingNever(query_embedding) == FALSE

\* line 78: "if not query_embedding"
EmbeddingMissing(query_embedding) == query_embedding = <<>>

\* what the user asks; top_k_retrieval of the service (a count, default 5)
UserQueries == {"how do I cope?", ""}
RetrievalTopKs == 1..MaxTopK

\* embedding_model.embed_query(text): a vector, an empty list, or an exception
EmbedQueryOutcomes == {[raised |-> FALSE, vec |-> v] : v \in QueryVectors} \cup
                      {[raised |-> TRUE, vec |-> <<>>]}

\* llm.generate(prompt): the text of the model, stripped by the provider
\* (ollama_provider.py line 102); the provider's own error text
\* (ollama_provider.py lines 104-107); the text of a provider that returns
\* what its model wrote, blanks included; or, the LLM interface allowing any
\* implementation, an exception
GenerateOutcomes == {"text", "error text", "unstripped text", "raises"}

Generated(outcome) ==
    IF outcome = "text" THEN "Try paced breathing."
    ELSE IF outcome = "unstripped text" THEN "  Try paced breathing.\n"
    ELSE "[Error generating response: connection refused]"

\* what query gave its caller
NoAnswer == [kind |-> "none", value |-> ""]

\* line 80
EmbedFailed == [kind |-> "returned", value |-> "[Error: Failed to embed query]"]

\* line 118: return response
Answer(response) == [kind |-> "returned", value |-> response]

\* lines 120-122: except Exception as e: return f"[Error processing query: {e}]"
QueryFails(e) == [kind |-> "returned", value |-> "[Error processing query: " \o e \o "]"]

\* a collaborator call of query: how many items it returned (the length of the
\* vector, the number of chunks), whether it raised, and for generate the
\* prompt and the history it was given
Collaborator(op, n, raised, prompt, history) ==
    [op |-> op, n |-> n, raised |-> raised, prompt |-> prompt, history |-> history]

NoAsk == [pc |-> "idle", user_query |-> "", top_k_retrieval |-> 0,
          query_embedding |-> <<>>, retrieved_chunks |-> <<>>, final_prompt |-> "",
          response |-> "", calls |-> <<>>, outcome |-> NoAnswer,
          dbError |-> FALSE]   \* the SELECT of the retrieval failed in the store

----------------------------------------------------------------------------
(* Initial state: a process that has imported the module, before __init__.  *)
(* The database has no document_chunks table, or an empty one created       *)
(* earlier with some width.                                                 *)

Init ==
    /\ settingsDim \in Dims
    /\ schemaWidth \in {0} \cup Dims
    /\ store = "new"
    /\ embedding_dim = 0
    /\ rows = {}
    /\ txn = NoTxn
    /\ openSessions = 0
    /\ last = NoCall
    /\ ingest = NoRun
    /\ ask = NoAsk

\* lines 56-88: __init__(db_url, embedding_dim) and _create_table_and_extension.
\* create_all issues CREATE TABLE only for a missing table, with the column
\* Vector(settings.embedding_dimension) of line 34; SQLAlchemyError is re-raised.
Construct(dim, fails) ==
    /\ store = "new"
    /\ last.op = "none"
    /\ IF fails
       THEN /\ store' = "failed"
            /\ last' = [NoCall EXCEPT !.op = "init", !.raised = TRUE, !.dbError = TRUE]
            /\ UNCHANGED <<schemaWidth, embedding_dim>>
       ELSE /\ store' = "ready"
            /\ embedding_dim' = dim
            /\ schemaWidth' = IF schemaWidth = 0 THEN settingsDim ELSE schemaWidth
            /\ last' = [NoCall EXCEPT !.op = "init"]
    /\ UNCHANGED <<ask, ingest, settingsDim, rows, txn, openSessions>>

\* the flush of line 123-124 fails: the connection, or a constraint
PersistFails(models, committed, width, dbFails) ==
    dbFails \/ ConstraintViolated(models, committed, width)

\* lines 90-132: one whole add call
Add(chunks, dbFails) ==
    /\ store = "ready"
    /\ last.op = "none"
    /\ txn.state # "open"
    /\ LET models == ChunkModels(chunks, embedding_dim)
           ids == AddedIds(chunks, embedding_dim)
       IN IF chunks = <<>> \/ models = <<>>
          THEN /\ ~dbFails
               /\ last' = AddCall(chunks, Returned(<<>>), FALSE)
               /\ txn' = NoTxn
               /\ UNCHANGED rows
          ELSE IF PersistFails(models, rows, schemaWidth, dbFails)
          THEN /\ rows' = RolledBack(rows, models)
               /\ last' = AddCall(chunks, Returned(<<>>), TRUE)
               /\ txn' = [state |-> "rolledback", models |-> <<>>, ids |-> <<>>]
          ELSE /\ rows' = Committed(rows, models)
               /\ last' = AddCall(chunks, Returned(ids), FALSE)
               /\ txn' = [state |-> "committed", models |-> models, ids |-> ids]
    /\ UNCHANGED <<ask, ingest, settingsDim, schemaWidth, store, embedding_dim, openSessions>>

\* lines 134-189: one whole query call (one session, one SELECT)
Query(query_embedding, top_k, filters, dbFails) ==
    /\ store = "ready"
    /\ last.op = "none"
    /\ IF QueryVectorRejected(query_embedding, embedding_dim)
       THEN /\ ~dbFails
            /\ last' = QueryCall(query_embedding, top_k, filters, Returned(<<>>), FALSE, {}, {})
       ELSE LET visible == Snapshot(rows, txn)
            IN IF dbFails \/ StatementFails(visible, query_embedding, top_k, filters)
               THEN last' = QueryCall(query_embedding, top_k, filters, Returned(<<>>),
                                      TRUE, {}, {})
               ELSE \E results \in RankedRows(visible, query_embedding, top_k, filters) :
                        last' = QueryCall(query_embedding, top_k, filters,
                                    QueryReturns([i \in 1..Len(results) |-> ToDocumentChunk(results[i])]),
                                    FALSE, visible, rows)
    /\ UNCHANGED <<ask, ingest, settingsDim, schemaWidth, store, embedding_dim, rows, txn, openSessions>>

\* the caller takes the outcome of its call and goes on
CallerResumes ==
    /\ last.op \notin {"none", "querying"}
    /\ last' = NoCall
    /\ UNCHANGED <<ask, ingest, settingsDim, schemaWidth, store, embedding_dim, rows, txn, openSessions>>

\* a caller makes its next call once it has taken the outcome of the previous one
CanCall == last.op = "none"

ConstructStore == CanCall /\ \E dim \in Dims, fails \in BOOLEAN : Construct(dim, fails)

AddBatch == CanCall /\ \E chunks \in Batches, dbFails \in BOOLEAN : Add(chunks, dbFails)

QueryStore ==
    CanCall /\ \E q \in QueryVectors, k \in TopKs, f \in FilterInputs, dbFails \in BOOLEAN :
                   Query(q, k, f, dbFails)

Next ==
    \/ ConstructStore
    \/ AddBatch
    \/ QueryStore
    \/ CallerResumes

Spec == Init /\ [][Next]_vars

----------------------------------------------------------------------------
(* add split at its transaction boundary, for callers running side by side. *)
(* Between the two steps the call holds its locals chunk_models and          *)
(* added_ids (txn.models, txn.ids); the argument is not read again and is    *)
(* not kept, so last.batch stays empty for these calls.                      *)

SessionsAfterCloseLeaked(open) == open

\* lines 131-132 and 188-189: finally: session.close()
SessionsAfterClose(open) == open - 1

\* lines 119 and 149: session = self.SessionLocal()
SessionsAfterOpen(open) == open + 1

\* lines 90-119: validation, then SessionLocal() when a chunk is left
AddBegin(chunks) ==
    /\ store = "ready"
    /\ last.op = "none"
    /\ txn.state # "open"
    /\ LET models == ChunkModels(chunks, embedding_dim)
           ids == AddedIds(chunks, embedding_dim)
       IN IF chunks = <<>> \/ models = <<>>
          THEN /\ last' = AddCall(<<>>, Returned(<<>>), FALSE)
               /\ txn' = NoTxn
               /\ UNCHANGED openSessions
          ELSE /\ txn' = [state |-> "open", models |-> models, ids |-> ids]
               /\ openSessions' = SessionsAfterOpen(openSessions)
               /\ UNCHANGED last
    /\ UNCHANGED <<ask, ingest, settingsDim, schemaWidth, store, embedding_dim, rows>>

\* lines 123-126 and 132: add_all, commit, return added_ids, close
AddCommit ==
    /\ txn.state = "open"
    /\ last.op = "none"
    /\ ~ConstraintViolated(txn.models, rows, schemaWidth)
    /\ rows' = Committed(rows, txn.models)
    /\ last' = AddCall(<<>>, Returned(txn.ids), FALSE)
    /\ txn' = [txn EXCEPT !.state = "committed"]
    /\ openSessions' = SessionsAfterClose(openSessions)
    /\ UNCHANGED <<ask, ingest, settingsDim, schemaWidth, store, embedding_dim>>

\* lines 127-132: SQLAlchemyError, rollback, return [], close
AddRollback(dbFails) ==
    /\ txn.state = "open"
    /\ last.op = "none"
    /\ PersistFails(txn.models, rows, schemaWidth, dbFails)
    /\ rows' = RolledBack(rows, txn.models)
    /\ last' = AddCall(<<>>, Returned(<<>>), TRUE)
    /\ txn' = [state |-> "rolledback", models |-> <<>>, ids |-> <<>>]
    /\ openSessions' = SessionsAfterClose(openSessions)
    /\ UNCHANGED <<ask, ingest, settingsDim, schemaWidth, store, embedding_dim>>

AddBatchBegin == CanCall /\ \E chunks \in Batches : AddBegin(chunks)

AddBatchFails == \E dbFails \in BOOLEAN : AddRollback(dbFails)

\* the queries of the other caller: the unit vectors, top_k and filters fixed
ProbeVectors == {v \in Vectors : v[1] = 1 /\ \A i \in 2..Len(v) : v[i] = 0}

QueryAlongside ==
    CanCall /\ \E q \in ProbeVectors, dbFails \in BOOLEAN : Query(q, MaxTopK, NoFilters, dbFails)

NextConc ==
    \/ ConstructStore
    \/ AddBatchBegin
    \/ AddCommit
    \/ AddBatchFails
    \/ QueryAlongside
    \/ CallerResumes

SpecConc == Init /\ [][NextConc]_vars

----------------------------------------------------------------------------
(* query split where its session is opened, to follow the sessions of add    *)
(* and query from SessionLocal() to close(). Between the two steps the call  *)
(* holds its arguments (last.op = "querying").                               *)

\* lines 142-149: the two rejections, then SessionLocal()
QueryBegin(query_embedding, top_k, filters) ==
    /\ store = "ready"
    /\ last.op = "none"
    /\ IF QueryVectorRejected(query_embedding, embedding_dim)
       THEN /\ last' = QueryCall(query_embedding, top_k, filters, Returned(<<>>), FALSE, {}, {})
            /\ UNCHANGED openSessions
       ELSE /\ last' = [NoCall EXCEPT !.op = "querying", !.embedding = query_embedding,
                                      !.top_k = top_k, !.filters = filters]
            /\ openSessions' = SessionsAfterOpen(openSessions)
    /\ UNCHANGED <<ask, ingest, settingsDim, schemaWidth, store, embedding_dim, rows, txn>>

\* lines 150-189: the SELECT, its result or the SQLAlchemyError handler, close
QueryFinish(dbFails) ==
    /\ last.op = "querying"
    /\ LET visible == Snapshot(rows, txn)
       IN IF dbFails \/ StatementFails(visible, last.embedding, last.top_k, last.filters)
          THEN last' = QueryCall(last.embedding, last.top_k, last.filters, Returned(<<>>),
                                 TRUE, {}, {})
          ELSE \E results \in RankedRows(visible, last.embedding, last.top_k, last.filters) :
                   last' = QueryCall(last.embedding, last.top_k, last.filters,
                               QueryReturns([i \in 1..Len(results) |-> ToDocumentChunk(results[i])]),
                               FALSE, visible, rows)
    /\ openSessions' = SessionsAfterClose(openSessions)
    /\ UNCHANGED <<ask, ingest, settingsDim, schemaWidth, store, embedding_dim, rows, txn>>

\* the queries of this caller: no vector, and the unit vector of each length
QueryStoreBegin ==
    CanCall /\ \E q \in {<<>>} \cup ProbeVectors : QueryBegin(q, MaxTopK, NoFilters)

QueryStoreFinish == \E dbFails \in BOOLEAN : QueryFinish(dbFails)

NextSessions ==
    \/ ConstructStore
    \/ AddBatchBegin
    \/ AddCommit
    \/ AddBatchFails
    \/ QueryStoreBegin
    \/ QueryStoreFinish
    \/ CallerResumes

SpecSessions == Init /\ [][NextSessions]_vars

----------------------------------------------------------------------------
(* IngestionService.run_ingestion, lines 47-122, over a constructed store.   *)
(* Each step runs up to and including the next collaborator call; the step   *)
(* of the last batch includes the return of line 118.                        *)

\* vector_store.add(batch_chunks) as a whole call (lines 90-132 of the store):
\* the rows, the returned ids and the session it leaves behind
AddOutcome(chunks, dbFails) ==
    LET models == ChunkModels(chunks, embedding_dim)
        ids == AddedIds(chunks, embedding_dim)
    IN IF chunks = <<>> \/ models = <<>>
       THEN [rows |-> rows, ret |-> <<>>, dbError |-> FALSE, txn |-> NoTxn]
       ELSE IF PersistFails(models, rows, schemaWidth, dbFails)
       THEN [rows |-> RolledBack(rows, models), ret |-> <<>>, dbError |-> TRUE,
             txn |-> [state |-> "rolledback", models |-> <<>>, ids |-> <<>>]]
       ELSE [rows |-> Committed(rows, models), ret |-> ids, dbError |-> FALSE,
             txn |-> [state |-> "committed", models |-> models, ids |-> ids]]

CountWholeBatch(total_chunks_added, added_ids, batch_chunks) ==
    total_chunks_added + Len(batch_chunks)

\* lines 110-112: if added_ids: total_chunks_added += len(added_ids)
CountAdded(total_chunks_added, added_ids, batch_chunks) ==
    IF added_ids # <<>> THEN total_chunks_added + Len(added_ids) ELSE total_chunks_added

\* a return statement, or the handler of lines 120-122
Finished(run, outcome) == [run EXCEPT !.pc = "done", !.outcome = outcome]

NextStartSameBatch(i, batch_size) == i

\* line 92: range(0, len(all_chunks), self.batch_size)
NextStart(i, batch_size) == i + batch_size

\* the end of one pass of the loop of line 92: the next batch, or lines 117-118
Advance(run) ==
    LET next == NextStart(run.i, run.batch_size)
    IN IF next >= Len(run.all_chunks)
       THEN Finished(run, RunReturns(run.total_chunks_added))
       ELSE [run EXCEPT !.pc = "embed", !.i = next]

\* lines 57-67: run_ingestion(source) of a service made with batch_size, up to
\* the loader's answer
LoadDocuments(batch_size, n, raises) ==
    /\ ingest.pc = "idle"
    /\ store = "ready"
    /\ last.op = "none"
    /\ LET run == [ingest EXCEPT !.batch_size = batch_size,
                                 !.calls = Append(@, Call("load", 0, IF raises THEN 0 ELSE n,
                                                          raises, <<>>))]
       IN ingest' = IF raises THEN Finished(run, RunFails)
                    ELSE IF n = 0 THEN Finished(run, NoDocumentsLoaded)
                    ELSE [run EXCEPT !.pc = "split", !.documents = LoadedDocuments(n)]
    /\ UNCHANGED <<ask, settingsDim, schemaWidth, store, embedding_dim, rows, txn, openSessions,
                   last>>

\* lines 71-88: the splitter is called once per document; counts[d] is the
\* number of windows it makes of document d
SplitDocuments(counts, raises) ==
    /\ ingest.pc = "split"
    /\ LET texts == [d \in 1..Len(ingest.documents) |->
                        SplitText(ingest.documents[d].content, counts[d])]
           chunks == AllChunks(ingest.documents, texts, Len(ingest.documents))
           split == Call("split", 0, IF raises THEN 0 ELSE Len(chunks), raises, <<>>)
           run == [ingest EXCEPT
                      !.texts = texts, !.calls = Append(@, split),
                      !.documents = [d \in 1..Len(ingest.documents) |->
                                        ParentAfterSplit(ingest.documents[d], texts[d])]]
       IN ingest' = IF raises THEN Finished([ingest EXCEPT !.calls = Append(@, split)],
                                            RunFails)
                    ELSE IF chunks = <<>> THEN Finished(run, NoChunksCreated)
                    ELSE [run EXCEPT !.pc = "embed", !.all_chunks = chunks, !.i = 0]
    /\ UNCHANGED <<ask, settingsDim, schemaWidth, store, embedding_dim, rows, txn, openSessions,
                   last>>

\* lines 92-106: the batch at i is embedded; a raise ends the run in the handler
\* of line 120, an unusable answer skips the batch (line 102), otherwise the
\* vectors are attached and the batch goes to the store
EmbedBatch(outcome) ==
    /\ ingest.pc = "embed"
    /\ outcome # "vectors" => ingest.faults < MaxFaults
    /\ LET batch_chunks == BatchAt(ingest.all_chunks, ingest.i, ingest.batch_size)
           texts_to_embed == [p \in 1..Len(batch_chunks) |-> batch_chunks[p].content]
           embeddings == EmbedDocuments(texts_to_embed, embedding_dim, outcome)
           unusable == embeddings = <<>> \/ Len(embeddings) # Len(batch_chunks)
           run == [ingest EXCEPT
                      !.calls = Append(@, Call("embed", ingest.i,
                                               IF outcome = "raises" THEN 0
                                               ELSE Len(embeddings),
                                               outcome = "raises", batch_chunks)),
                      !.faults = IF outcome = "vectors" THEN @ ELSE @ + 1]
       IN ingest' = IF outcome = "raises" THEN Finished(run, RunFails)
                    ELSE IF unusable THEN Advance(run)
                    ELSE [run EXCEPT !.pc = "add",
                                     !.all_chunks = AttachEmbeddings(@, ingest.i,
                                                        ingest.batch_size, embeddings)]
    /\ UNCHANGED <<ask, settingsDim, schemaWidth, store, embedding_dim, rows, txn, openSessions,
                   last>>

\* lines 109-118: the batch at i is handed to the store; the ids it returns are
\* counted; a raise of the store (the VectorStore interface allows any
\* implementation) ends the run in the handler of line 120, nothing persisted
StoreBatch(dbFails, raises) ==
    /\ ingest.pc = "add"
    /\ (dbFails \/ raises) => ingest.faults < MaxFaults
    /\ ~(dbFails /\ raises)
    /\ LET batch_chunks == BatchAt(ingest.all_chunks, ingest.i, ingest.batch_size)
           added == AddOutcome(batch_chunks, dbFails)
           added_ids == added.ret
           run == [ingest EXCEPT
                      !.calls = Append(@, Call("add", ingest.i,
                                               IF raises THEN 0 ELSE Len(added_ids),
                                               raises, batch_chunks)),
                      !.faults = IF dbFails \/ raises THEN @ + 1 ELSE @]
       IN IF raises
          THEN /\ ingest' = Finished(run, RunFails)
               /\ UNCHANGED <<rows, txn>>
          ELSE /\ rows' = added.rows
               /\ txn' = added.txn
               /\ ingest' = Advance([run EXCEPT !.total_chunks_added =
                                        CountAdded(@, added_ids, batch_chunks)])
    /\ UNCHANGED <<ask, settingsDim, schemaWidth, store, embedding_dim, openSessions, last>>

\* scripts/run_ingestion.py lines 139-158: the entry point after run_ingestion
\* returned; on False it loads the source again, which answers as it did the
\* first time (the source has not changed)
ScriptExits ==
    /\ ingest.pc = "done"
    /\ LET first == ingest.calls[1]
           reload == Call("load", 0, first.n, first.raised, <<>>)
           run == [ingest EXCEPT !.pc = "exited"]
       IN ingest' =
              IF ingest.outcome.value
              THEN [run EXCEPT !.exit = Exit(0, "Ingestion completed successfully.")]
              ELSE IF reload.raised
              THEN [run EXCEPT !.calls = Append(@, reload),
                               !.exit = Exit(1, "An unexpected error occurred")]
              ELSE IF reload.n = 0
              THEN [run EXCEPT !.calls = Append(@, reload),
                               !.exit = Exit(0, "No documents found or loaded from the source.")]
              ELSE [run EXCEPT !.calls = Append(@, reload),
                               !.exit = Exit(1, "Ingestion failed or no chunks were added.")]
    /\ UNCHANGED <<ask, settingsDim, schemaWidth, store, embedding_dim, rows, txn,
                   openSessions, last>>

StartIngestion ==
    /\ ingest.pc = "idle"
    /\ \E batch_size \in BatchSizes, n \in 0..MaxDocs, raises \in BOOLEAN :
           LoadDocuments(batch_size, n, raises)

SplitAll ==
    /\ ingest.pc = "split"
    /\ \E counts \in [1..Len(ingest.documents) -> 0..MaxWindows], raises \in BOOLEAN :
           SplitDocuments(counts, raises)

EmbedNextBatch == \E outcome \in EmbedOutcomes : EmbedBatch(outcome)

StoreNextBatch == \E dbFails \in BOOLEAN, raises \in BOOLEAN : StoreBatch(dbFails, raises)

NextIngest ==
    \/ ConstructStore
    \/ CallerResumes
    \/ StartIngestion
    \/ SplitAll
    \/ EmbedNextBatch
    \/ StoreNextBatch
    \/ ScriptExits

SpecIngest == Init /\ [][NextIngest]_vars

----------------------------------------------------------------------------
(* QueryService.query, lines 62-122, over a constructed store.  Each step    *)
(* runs up to and including the next collaborator call; the last one         *)
(* includes the return.                                                      *)

\* vector_store.query(query_embedding, top_k, filters) as a whole call (lines
\* 134-189 of the store): the lists it can return
QueryOutcomes(query_embedding, top_k, filters, dbFails) ==
    IF QueryVectorRejected(query_embedding, embedding_dim)
    THEN {<<>>}
    ELSE LET visible == Snapshot(rows, txn)
         IN IF dbFails \/ StatementFails(visible, query_embedding, top_k, filters)
            THEN {<<>>}
            ELSE {[i \in 1..Len(results) |-> ToDocumentChunk(results[i])] :
                      results \in RankedRows(visible, query_embedding, top_k, filters)}

AskOver(run, outcome) == [run EXCEPT !.pc = "done", !.outcome = outcome]

\* lines 72-81: query(user_query) of a service made with top_k_retrieval, up to
\* the embedding of the query
EmbedQuery(user_query, top_k_retrieval, outcome) ==
    /\ ask.pc = "idle"
    /\ store = "ready"
    /\ last.op = "none"
    /\ LET raised == outcome.raised
           query_embedding == outcome.vec
           run == [ask EXCEPT !.user_query = user_query,
                              !.top_k_retrieval = top_k_retrieval,
                              !.calls = Append(@, Collaborator("embed_query",
                                                     Len(query_embedding), raised, "", "")),
                              !.query_embedding = query_embedding]
       IN ask' = IF raised THEN AskOver(run, QueryFails("embedding failed"))
                 ELSE IF EmbeddingMissing(query_embedding) THEN AskOver(run, EmbedFailed)
                 ELSE [run EXCEPT !.pc = "retrieve"]
    /\ UNCHANGED <<ingest, settingsDim, schemaWidth, store, embedding_dim, rows, txn,
                   openSessions, last>>

\* lines 84-110: retrieval, context_str and final_prompt; a raise of the store
\* (the VectorStore interface allows any implementation) goes to line 120
Retrieve(dbFails, raises) ==
    /\ ask.pc = "retrieve"
    /\ ~(dbFails /\ raises)
    /\ dbFails => ~QueryVectorRejected(ask.query_embedding, embedding_dim)
    /\ IF raises
       THEN ask' = AskOver([ask EXCEPT !.calls = Append(@, Collaborator("query", 0, TRUE,
                                                                        "", ""))],
                           QueryFails("store unavailable"))
       ELSE \E retrieved_chunks \in QueryOutcomes(ask.query_embedding, ask.top_k_retrieval,
                                                  NoFilters, dbFails) :
                ask' = [ask EXCEPT
                           !.pc = "generate",
                           !.calls = Append(@, Collaborator("query", Len(retrieved_chunks),
                                                            FALSE, "", "")),
                           !.retrieved_chunks = retrieved_chunks,
                           !.dbError = /\ ~QueryVectorRejected(ask.query_embedding,
                                                               embedding_dim)
                                       /\ \/ dbFails
                                          \/ StatementFails(Snapshot(rows, txn),
                                                            ask.query_embedding,
                                                            ask.top_k_retrieval, NoFilters),
                           !.final_prompt = Format(DEFAULT_PROMPT_TEMPLATE,
                                                   ContextString(retrieved_chunks),
                                                   ask.user_query)]
    /\ UNCHANGED <<ingest, settingsDim, schemaWidth, store, embedding_dim, rows, txn,
                   openSessions, last>>

\* lines 115-122: llm.generate(prompt=final_prompt), no history; its text is
\* returned, an exception becomes the error text of line 122
Generate(outcome) ==
    /\ ask.pc = "generate"
    /\ LET raised == outcome = "raises"
           run == [ask EXCEPT !.calls = Append(@, Collaborator("generate", 0, raised,
                                                               ask.final_prompt, "None"))]
       IN ask' = IF raised THEN AskOver(run, QueryFails("generation failed"))
                 ELSE AskOver([run EXCEPT !.response = Generated(outcome)],
                              Answer(Generated(outcome)))
    /\ UNCHANGED <<ingest, settingsDim, schemaWidth, store, embedding_dim, rows, txn,
                   openSessions, last>>

\* the store is filled before the question is asked
FillStore == ask.pc = "idle" /\ AddBatch

AskQuery ==
    /\ ask.pc = "idle"
    /\ CanCall
    /\ \E user_query \in UserQueries, k \in RetrievalTopKs, outcome \in EmbedQueryOutcomes :
           EmbedQuery(user_query, k, outcome)

RetrieveChunks == \E dbFails \in BOOLEAN, raises \in BOOLEAN : Retrieve(dbFails, raises)

GenerateAnswer == \E outcome \in GenerateOutcomes : Generate(outcome)

NextQuery ==
    \/ ConstructStore
    \/ FillStore
    \/ CallerResumes
    \/ AskQuery
    \/ RetrieveChunks
    \/ GenerateAnswer

SpecQuery == Init /\ [][NextQuery]_vars

----------------------------------------------------------------------------
(* Vocabulary of the claims *)

\* the chunk has an embedding, of the store's dimension
HasStoreDimension(chunk) ==
    chunk.embedding.present /\ Len(chunk.embedding.vec) = embedding_dim

\* a persisted row holds this chunk, field by field
PersistedAs(chunk) ==
    \E r \in rows : /\ r.id = chunk.id
                    /\ r.document_id = chunk.document_id
                    /\ r.content = chunk.content
                    /\ r.chunk_metadata = chunk.metadata
                    /\ r.embedding = chunk.embedding

IdsOf(chunks) == [i \in 1..Len(chunks) |-> chunks[i].id]

\* the caller got the value by which "nothing stored / nothing retrieved" is reported
LooksLikeEmptyResult == ~last.raised /\ last.ret = <<>>

\* the vector is at the same cosine distance from q as q itself
TiesWithQuery(v, q) ==
    \/ Norm2(q) = 0
    \/ Dot(v, q) > 0 /\ Dot(v, q) * Dot(v, q) = Norm2(v) * Norm2(q)

----------------------------------------------------------------------------
(* C1: every persisted row has an embedding, and its length is the dimension *)
(* the store was configured with.                                            *)
C1_PersistedEmbeddingHasStoreDimension ==
    store = "ready" =>
        \A r \in rows : r.embedding.present /\ Len(r.embedding.vec) = embedding_dim

\* an add that dropped a chunk has returned, and rows are persisted
C1_Witness ==
    /\ last.op = "add"
    /\ \E i \in 1..Len(last.batch) : ~HasStoreDimension(last.batch[i])
    /\ last.ret # <<>>
    /\ rows # {}

(* C2 as stated: after every add, each chunk of the batch without an embedding *)
(* of the store's dimension is neither returned nor persisted, and each valid  *)
(* chunk of the batch is returned and persisted (read here on a store whose    *)
(* column has the store's dimension, for batches of chunks with different ids).*)
C2_InvalidExcludedValidPersisted ==
    ( /\ last.op = "add"
      /\ schemaWidth = embedding_dim
      /\ \A i, j \in 1..Len(last.batch) : i # j => last.batch[i].id # last.batch[j].id )
    =>
        \A i \in 1..Len(last.batch) :
            LET c == last.batch[i]
            IN IF HasStoreDimension(c)
               THEN c.id \in Range(last.ret) /\ PersistedAs(c)
               ELSE c.id \notin Range(last.ret) /\ ~PersistedAs(c)

(* C2 amended: after every add, no chunk without an embedding of the store's   *)
(* dimension is persisted; the returned list is the ids of the valid chunks in *)
(* input order, each of them persisted, unless persistence failed, and then    *)
(* the returned list is empty.                                                 *)
C2_InvalidDroppedValidKeptUnlessPersistenceFails ==
    last.op = "add" =>
        LET valid == SelectSeq(last.batch, HasStoreDimension)
        IN /\ \A i \in 1..Len(last.batch) :
                  ~HasStoreDimension(last.batch[i]) => ~PersistedAs(last.batch[i])
           /\ last.ret = IF last.dbError THEN <<>> ELSE IdsOf(valid)
           /\ ~last.dbError => \A i \in 1..Len(valid) : PersistedAs(valid[i])

\* an add of a batch with a valid and an invalid chunk has persisted the valid one
C2_Witness ==
    /\ last.op = "add"
    /\ ~last.dbError
    /\ \E i, j \in 1..Len(last.batch) :
           /\ HasStoreDimension(last.batch[i]) /\ PersistedAs(last.batch[i])
           /\ ~HasStoreDimension(last.batch[j])
    /\ Len(last.ret) = 1

(* C3: a non-empty batch of chunks that all have an embedding of the store's   *)
(* dimension, when persistence does not fail: add returns the ids of the input *)
(* chunks, in input order, and every chunk is persisted.                       *)
C3_AllValidBatchReturnsAllIds ==
    ( /\ last.op = "add"
      /\ last.batch # <<>>
      /\ \A i \in 1..Len(last.batch) : HasStoreDimension(last.batch[i])
      /\ ~last.dbError )
    => /\ last.ret = IdsOf(last.batch)
       /\ \A i \in 1..Len(last.batch) : PersistedAs(last.batch[i])

\* a batch of two valid chunks with different ids has been added
C3_Witness ==
    /\ last.op = "add"
    /\ ~last.dbError
    /\ Len(last.batch) = 2
    /\ \A i \in 1..Len(last.batch) : HasStoreDimension(last.batch[i])
    /\ last.batch[1].id # last.batch[2].id
    /\ Len(last.ret) = 2

C5_FailedAddRollsBack ==
    [][ (last.op = "none" /\ last'.op = "add" /\ last'.dbError)
        => (rows' = rows /\ last'.ret = <<>>) ]_vars

\* an add with a valid chunk of a new id failed on a store that holds rows
C5_Witness ==
    /\ last.op = "add"
    /\ last.dbError
    /\ rows # {}
    /\ \E i \in 1..Len(last.batch) :
           /\ HasStoreDimension(last.batch[i])
           /\ \A r \in rows : r.id # last.batch[i].id

(* C6: a query running alongside an add sees all of the rows of that add's     *)
(* batch or none of them, never a strict non-empty subset.                     *)
C6_QuerySeesWholeBatchOrNothing ==
    (last.op = "query" /\ txn.state \in {"open", "committed"})
    => LET batch == Range(txn.models)
           seenOfBatch == IF txn.state = "open" THEN last.seenUncommitted
                          ELSE batch \cap last.seen
       IN seenOfBatch = {} \/ seenOfBatch = batch

\* a valid query ran while an add held two rows in its open session
C6_Witness ==
    /\ last.op = "query"
    /\ ~last.dbError
    /\ ~QueryVectorRejected(last.embedding, embedding_dim)
    /\ txn.state = "open"
    /\ Cardinality(Range(txn.models)) = 2
    /\ ~ConstraintViolated(txn.models, rows, schemaWidth)

(* C7: a query with an empty vector, or one of another length than the store's *)
(* dimension, ends in an outcome the caller can tell from an empty result.     *)
C7_RejectedQueryVectorIsAnError ==
    ( /\ last.op = "query"
      /\ (Len(last.embedding) = 0 \/ Len(last.embedding) # embedding_dim) )
    => ~LooksLikeEmptyResult

(* C8: a storage failure during add or query gives an outcome the caller can   *)
(* tell from "nothing stored / nothing retrieved".                             *)
C8_StorageFailureIsDistinguishable ==
    (last.op \in {"add", "query"} /\ last.dbError) => ~LooksLikeEmptyResult

(* C9: a store that came out of initialization usable has a vector column of   *)
(* the width it was given as embedding_dim: the width is set from it, and an   *)
(* existing column of another width makes initialization fail.                 *)
C9_UsableStoreHasColumnOfItsDimension ==
    store = "ready" => schemaWidth = embedding_dim

(* C10: a query with a non-empty vector of the store's dimension against a     *)
(* store without rows returns an empty list and no error, for every top_k and  *)
(* every filter.                                                               *)
C10_QueryOnEmptyStoreIsEmpty ==
    ( /\ last.op = "query"
      /\ Len(last.embedding) # 0
      /\ Len(last.embedding) = embedding_dim
      /\ rows = {} )
    => (last.ret = <<>> /\ ~last.raised)

\* a valid query with a filter and a positive top_k ran against an empty store
C10_Witness ==
    /\ last.op = "query"
    /\ Len(last.embedding) # 0
    /\ Len(last.embedding) = embedding_dim
    /\ rows = {}
    /\ ~last.dbError
    /\ last.top_k = MaxTopK
    /\ last.filters.present /\ last.filters.entries # {}

\* the vector store took the query: a vector of its dimension, a top_k that is a
\* count, and no failure of the storage
ValidQueryAnswered ==
    /\ last.op = "query"
    /\ ~QueryVectorRejected(last.embedding, embedding_dim)
    /\ last.top_k >= 0
    /\ ~last.dbError

\* both distances to q are numbers, and a's is the greater
Farther(a, b, q) ==
    /\ Norm2(a) # 0 /\ Norm2(b) # 0 /\ Norm2(q) # 0
    /\ MoreSimilar(b, a, q)

\* the stored chunks that satisfy the filters of the last query: every key of
\* the filter is a key of the chunk, with the same text
Candidates ==
    IF last.filters.present /\ last.filters.entries # {}
    THEN {r \in rows : \A f \in last.filters.entries :
                           \E e \in r.chunk_metadata : e.key = f.key /\ AsText(e) = PyStr(f)}
    ELSE rows

C12_FiltersAreAConjunctionOnText ==
    last.op = "query" =>
        IF last.filters.present /\ last.filters.entries # {}
        THEN \A i \in 1..Len(last.ret) : \A f \in last.filters.entries :
                 \E e \in last.ret[i].metadata : e.key = f.key /\ AsText(e) = PyStr(f)
        ELSE (ValidQueryAnswered /\ last.top_k >= Cardinality(rows))
             => {last.ret[i].id : i \in 1..Len(last.ret)} = {r.id : r \in rows}

\* a filter of two keys, one of them a str against a stored int, returned the
\* one chunk that has both and left the other stored chunk out
C12_Witness ==
    /\ ValidQueryAnswered
    /\ Cardinality(last.filters.entries) = 2
    /\ Cardinality(rows) = 2
    /\ last.top_k = MaxTopK
    /\ Len(last.ret) = 1
    /\ \E e \in last.ret[1].metadata : e.type = "int"

----------------------------------------------------------------------------
(* Vocabulary of the claims about run_ingestion *)

RunOver == ingest.pc \in {"done", "exited"}

\* the calls run_ingestion made to the embedding provider and to the store
LoopCalls == SelectSeq(ingest.calls, LAMBDA c : c.op \in {"embed", "add"})

\* the index in all_chunks at which each batch of the run starts
BatchStarts == {i \in 0..(Len(ingest.all_chunks) - 1) : i % ingest.batch_size = 0}

SizeOfBatchAt(i) ==
    IF i + ingest.batch_size <= Len(ingest.all_chunks) THEN ingest.batch_size
    ELSE Len(ingest.all_chunks) - i

\* the embedding call failed (raised, or returned nothing) or returned another
\* number of vectors than the batch has chunks
EmbeddingUnusable(c) ==
    c.op = "embed" /\ (c.raised \/ c.n = 0 \/ c.n # SizeOfBatchAt(c.i))

CalledFor(op, i) == \E m \in 1..Len(ingest.calls) : ingest.calls[m].op = op /\ ingest.calls[m].i = i

(* C13: when the embedding call of a batch fails (raises, or returns an empty  *)
(* list) or returns another number of vectors than the batch has chunks, every *)
(* later batch of the run is still embedded, and handed to the store if its    *)
(* own embedding is usable; the chunks of a batch whose embedding call failed  *)
(* are not stored, and the total counts the stored chunks of the other batches.*)
C13_BadEmbeddingSkipsOnlyItsBatch ==
    RunOver =>
        \A m \in 1..Len(ingest.calls) :
            EmbeddingUnusable(ingest.calls[m]) =>
                /\ \A j \in BatchStarts :
                       j > ingest.calls[m].i =>
                           /\ CalledFor("embed", j)
                           /\ (\E k \in 1..Len(ingest.calls) :
                                   /\ ingest.calls[k].op = "embed" /\ ingest.calls[k].i = j
                                   /\ ~EmbeddingUnusable(ingest.calls[k]))
                              => CalledFor("add", j)
                /\ ~CalledFor("add", ingest.calls[m].i)
                /\ ingest.total_chunks_added = Cardinality(rows)

(* C14: run_ingestion returns True if and only if at least one chunk of the    *)
(* run was stored.                                                             *)
C14_SuccessIffSomethingStored ==
    RunOver => /\ ingest.outcome.kind = "returned"
               /\ ingest.outcome.value <=> Cardinality(rows) > 0

\* the answer of the call with this op, when it was made and did not raise
Answered(op, n) ==
    \E m \in 1..Len(ingest.calls) :
        ingest.calls[m].op = op /\ ~ingest.calls[m].raised /\ ingest.calls[m].n = n

(* C15: a run whose loader yields zero documents and a run whose documents     *)
(* split into zero chunks end the same way: False is returned after a warning, *)
(* not through the error handler, and neither the embedding provider nor the   *)
(* store has been called.                                                      *)
C15_NothingToIngestIsQuiet ==
    (RunOver /\ (Answered("load", 0) \/ Answered("split", 0)))
    => /\ ingest.outcome = [kind |-> "returned", value |-> FALSE, log |-> "warning"]
       /\ LoopCalls = <<>>
       /\ rows = {}

\* two documents were loaded and split into no window at all
C15_Witness ==
    /\ RunOver
    /\ Len(ingest.documents) = 2
    /\ Answered("split", 0)

(* C16: whatever the loader, the splitter, the embedding provider or the store *)
(* does, exceptions included, run_ingestion returns a boolean to its caller    *)
(* and raises nothing.                                                         *)
C16_RunAlwaysReturnsABoolean ==
    RunOver => /\ ingest.outcome.kind = "returned"
               /\ ingest.outcome.value \in BOOLEAN

\* the store raised while a batch was added
C16_Witness ==
    /\ RunOver
    /\ \E m \in 1..Len(ingest.calls) : ingest.calls[m].op = "add" /\ ingest.calls[m].raised

(* C17: the calls of one run to the embedding provider and to the store come   *)
(* batch after batch in chunk order: the first is the embedding of the first   *)
(* batch; an add follows the usable embedding of its own batch; an embedding   *)
(* follows the add of the batch just before it, or that batch's unusable       *)
(* embedding; no batch is embedded twice or added twice.                       *)
C17_BatchesOneAfterTheOther ==
    LET calls == LoopCalls
    IN /\ calls # <<>> => (calls[1].op = "embed" /\ calls[1].i = 0)
       /\ \A m \in 2..Len(calls) :
              LET c == calls[m]
                  before == calls[m - 1]
              IN IF c.op = "add"
                 THEN before.op = "embed" /\ before.i = c.i /\ ~EmbeddingUnusable(before)
                 ELSE /\ c.i = before.i + ingest.batch_size
                      /\ \/ before.op = "add"
                         \/ EmbeddingUnusable(before) /\ ~before.raised
       /\ \A m, k \in 1..Len(calls) :
              (m # k /\ calls[m].op = calls[k].op) => calls[m].i # calls[k].i

\* a run of three batches: the first stored, the second skipped, the third stored
C17_Witness ==
    /\ RunOver
    /\ Len(LoopCalls) = 5
    /\ LoopCalls[3].op = "embed" /\ EmbeddingUnusable(LoopCalls[3])
    /\ LoopCalls[5].op = "add" /\ LoopCalls[5].n > 0

\* the chunks made of the document at position d of the loader's list, in the
\* order they have in all_chunks
ChunksFrom(d) == SelectSeq(ingest.all_chunks, LAMBDA c : c.document_id = ingest.documents[d].id)

\* the chunk's metadata has exactly one chunk_index, the integer n
HasChunkIndex(chunk, n) ==
    {e \in chunk.metadata : e.key = "chunk_index"} =
        {Entry("chunk_index", "int", ToString(n))}

(* C18: the chunks made of a document that splits into n windows are n, carry  *)
(* that document's id, hold the windows in split order and the chunk_index     *)
(* values 0..n-1 in that order; every chunk of the run belongs to a loaded     *)
(* document.                                                                   *)
C18_ChunkIndexCountsWithinDocument ==
    ingest.pc \in {"embed", "add", "done"} /\ ingest.texts # <<>> =>
        /\ \A d \in 1..Len(ingest.documents) :
               LET chunks == ChunksFrom(d)
               IN /\ Len(chunks) = Len(ingest.texts[d])
                  /\ \A p \in 1..Len(chunks) :
                         /\ chunks[p].content = ingest.texts[d][p]
                         /\ HasChunkIndex(chunks[p], p - 1)
        /\ \A p \in 1..Len(ingest.all_chunks) :
               \E d \in 1..Len(ingest.documents) :
                   ingest.all_chunks[p].document_id = ingest.documents[d].id

\* two documents have been split into two windows each
C18_Witness ==
    /\ Len(ingest.documents) = 2
    /\ Len(ingest.all_chunks) = 4
    /\ \A d \in 1..2 : Len(ChunksFrom(d)) = 2

----------------------------------------------------------------------------
(* Vocabulary of the claims about QueryService.query *)

QueryOver == ask.pc = "done"

\* the calls query made to the collaborator operation op
CallsTo(op) == SelectSeq(ask.calls, LAMBDA c : c.op = op)

\* the texts by which query reports an error to its caller
IsErrorResult(text) ==
    text \in {"[Error: Failed to embed query]",
              "[Error processing query: embedding failed]",
              "[Error processing query: store unavailable]",
              "[Error processing query: generation failed]"}

(* C19: when embedding the query gives an empty vector or raises, the query    *)
(* ends with an error result, and neither the store's query nor the            *)
(* generation provider's generate is called.                                   *)
C19_NoEmbeddingNoRetrievalNoGeneration ==
    \A m \in 1..Len(ask.calls) :
        (ask.calls[m].op = "embed_query" /\ (ask.calls[m].raised \/ ask.calls[m].n = 0))
        => /\ QueryOver
           /\ ask.outcome.kind = "returned"
           /\ IsErrorResult(ask.outcome.value)
           /\ CallsTo("query") = <<>>
           /\ CallsTo("generate") = <<>>

\* the embedding provider returned an empty list for a query against a filled store
C19_Witness ==
    /\ QueryOver
    /\ rows # {}
    /\ CallsTo("embed_query") = <<Collaborator("embed_query", 0, FALSE, "", "")>>

(* C20: when retrieval returns zero chunks, the prompt is the template filled  *)
(* with the no-context marker as its context section and with the user's       *)
(* query, and it is the prompt of the one call made to the generation provider.*)
C20_NoChunksStillPromptsWithMarker ==
    (\E m \in 1..Len(ask.calls) :
         ask.calls[m].op = "query" /\ ~ask.calls[m].raised /\ ask.calls[m].n = 0)
    => LET marked == DEFAULT_PROMPT_TEMPLATE.before \o "No relevant context documents found."
                     \o DEFAULT_PROMPT_TEMPLATE.between \o ask.user_query
                     \o DEFAULT_PROMPT_TEMPLATE.after
       IN /\ ask.final_prompt = marked
          /\ Len(CallsTo("generate")) <= 1
          /\ QueryOver => /\ Len(CallsTo("generate")) = 1
                          /\ CallsTo("generate")[1].prompt = marked

\* a query of the store's dimension found no chunk in an empty store, and the
\* generation provider answered
C20_Witness ==
    /\ QueryOver
    /\ rows = {}
    /\ Len(ask.query_embedding) = embedding_dim
    /\ Len(CallsTo("query")) = 1 /\ CallsTo("query")[1].n = 0
    /\ ask.outcome.value = "Try paced breathing."

\* the records of the chunks from position p on, each followed by the separator
\* when another one comes after it
RECURSIVE RecordsFrom(_, _)
RecordsFrom(chunks, p) ==
    IF p > Len(chunks) THEN ""
    ELSE "Source: " \o MetadataGet(chunks[p].metadata, "source") \o ", Page: " \o
         MetadataGet(chunks[p].metadata, "page") \o "\n" \o chunks[p].content \o
         (IF p < Len(chunks) THEN "\n---\n" ELSE "") \o RecordsFrom(chunks, p + 1)

(* C21: when chunks were retrieved, the context of the prompt is the records   *)
(* of the retrieved chunks (source, page, content), one per chunk, in the      *)
(* order the store returned them, and that prompt is the one given to the      *)
(* generation provider.                                                        *)
C21_ContextKeepsRetrievalOrder ==
    (ask.pc \in {"generate", "done"} /\ ask.retrieved_chunks # <<>>)
    => /\ ask.final_prompt = Format(DEFAULT_PROMPT_TEMPLATE,
                                    RecordsFrom(ask.retrieved_chunks, 1), ask.user_query)
       /\ \A m \in 1..Len(CallsTo("generate")) :
              CallsTo("generate")[m].prompt = ask.final_prompt

\* two chunks were retrieved and the prompt made of them was given to generate
C21_Witness ==
    /\ QueryOver
    /\ Len(ask.retrieved_chunks) = 2
    /\ ask.retrieved_chunks[1].content # ask.retrieved_chunks[2].content
    /\ Len(CallsTo("generate")) = 1

\* a step of the query failed: the embedding, the retrieval (in the store or
\* on the way to it) or the generation
SomeStepFailed ==
    \/ \E m \in 1..Len(ask.calls) : ask.calls[m].raised
    \/ \E m \in 1..Len(ask.calls) : ask.calls[m].op = "embed_query" /\ ask.calls[m].n = 0
    \/ ask.dbError
    \/ ask.response = "[Error generating response: connection refused]"

IsBracketedError(text) ==
    IsErrorResult(text) \/ text = "[Error generating response: connection refused]"

(* C22: query returns a text and raises nothing; when the embedding, the       *)
(* retrieval or the generation failed, the text is a bracketed error message   *)
(* and not a generated answer.                                                 *)
C22_FailureGivesErrorText ==
    QueryOver => /\ ask.outcome.kind = "returned"
                 /\ SomeStepFailed => IsBracketedError(ask.outcome.value)

\* the text without the blanks around it
Stripped(text) == IF text = "  Try paced breathing.\n" THEN "Try paced breathing." ELSE text

(* C23: when generate returned a text, query returns that text without its     *)
(* leading and trailing whitespace, and generate was called with no history.   *)
C23_AnswerIsStrippedText ==
    (QueryOver /\ \E m \in 1..Len(ask.calls) :
                      ask.calls[m].op = "generate" /\ ~ask.calls[m].raised)
    => /\ ask.outcome.value = Stripped(ask.response)
       /\ \A m \in 1..Len(CallsTo("generate")) : CallsTo("generate")[m].history = "None"

----------------------------------------------------------------------------
(* Claims about the ingestion entry point and the batches of run_ingestion *)

Exited == ingest.pc = "exited"

\* at least one chunk of the run is stored
SomethingStored == Cardinality(rows) > 0

\* there was nothing to ingest: the loader gave no document, or the documents
\* gave no chunk
NothingToIngest ==
    \/ ~ingest.calls[1].raised /\ ingest.calls[1].n = 0
    \/ Answered("split", 0)

(* C24: the entry point exits with 0 when at least one chunk was stored and    *)
(* when there was nothing to ingest (no document, or documents that gave no    *)
(* chunk), with 1 otherwise, and its message tells the three outcomes apart.   *)
C24_ExitCodeTellsOutcome ==
    Exited =>
        /\ ingest.exit.code = IF SomethingStored \/ NothingToIngest THEN 0 ELSE 1
        /\ ingest.exit.message =
               IF SomethingStored THEN "Ingestion completed successfully."
               ELSE IF NothingToIngest THEN "No documents found or loaded from the source."
               ELSE ingest.exit.message
        /\ ~(SomethingStored \/ NothingToIngest) =>
               ingest.exit.message \notin {"Ingestion completed successfully.",
                                           "No documents found or loaded from the source."}

\* the calls of the run to one collaborator operation
RunCallsTo(op) == SelectSeq(ingest.calls, LAMBDA c : c.op = op)

(* C25: the batch handed to add is the chunks the embedding call of that batch *)
(* was made for, in the same order, the j-th of them carrying the j-th vector  *)
(* returned (the provider's j-th vector has j as first component); a batch     *)
(* whose embedding call was unusable is not handed to add and none of its      *)
(* chunks is stored.                                                           *)
C25_EmbeddingsAttachedByPosition ==
    /\ \A m \in 1..Len(RunCallsTo("add")) :
           LET added == RunCallsTo("add")[m]
           IN \E k \in 1..Len(RunCallsTo("embed")) :
                  LET embedded == RunCallsTo("embed")[k]
                  IN /\ embedded.i = added.i
                     /\ embedded.n = Len(embedded.chunks)
                     /\ IdsOf(added.chunks) = IdsOf(embedded.chunks)
                     /\ \A j \in 1..Len(added.chunks) :
                            /\ added.chunks[j].content = embedded.chunks[j].content
                            /\ added.chunks[j].embedding.present
                            /\ added.chunks[j].embedding.vec[1] = j
    /\ \A k \in 1..Len(RunCallsTo("embed")) :
           LET embedded == RunCallsTo("embed")[k]
           IN EmbeddingUnusable(embedded) =>
                  /\ ~CalledFor("add", embedded.i)
                  /\ \A j \in 1..Len(embedded.chunks) :
                         \A r \in rows : r.id # embedded.chunks[j].id

\* a batch of two chunks was embedded, handed to add and stored
C25_Witness ==
    \E m \in 1..Len(RunCallsTo("add")) :
        /\ Len(RunCallsTo("add")[m].chunks) = 2
        /\ RunCallsTo("add")[m].n = 2
        /\ Cardinality(rows) >= 2

\* the run went through the whole batch loop (line 117)
LoopCompleted == RunOver /\ ingest.outcome.log = "info"

(* C26: the batches of a run that went through its loop partition the chunk    *)
(* list of length n >= 1 with batch size b >= 1: there are ceil(n / b) of      *)
(* them, batch k holds the chunks at positions (k-1)b+1 .. min(kb, n), in      *)
(* order; so every batch but the last has b chunks and the last 1 to b.        *)
C26_BatchesPartitionTheChunks ==
    LoopCompleted =>
        LET n == Len(ingest.all_chunks)
            b == ingest.batch_size
            batches == RunCallsTo("embed")
        IN /\ n >= 1 /\ b >= 1
           /\ Len(batches) = (n + b - 1) \div b
           /\ \A k \in 1..Len(batches) :
                  /\ Len(batches[k].chunks) = (IF k * b <= n THEN b ELSE n - (k - 1) * b)
                  /\ Len(batches[k].chunks) \in 1..b
                  /\ \A j \in 1..Len(batches[k].chunks) :
                         batches[k].chunks[j].id = ingest.all_chunks[(k - 1) * b + j].id

\* three chunks in batches of two: a full batch and a last batch of one
C26_Witness ==
    /\ LoopCompleted
    /\ Len(ingest.all_chunks) = 3
    /\ ingest.batch_size = 2
    /\ Len(RunCallsTo("embed")) = 2

\* the chunks of a run made of the document at position d
ChunksOfRunFrom(run, d) == SelectSeq(run.all_chunks, LAMBDA c : c.document_id = run.documents[d].id)

(* C27: the splitting step leaves every document as the loader gave it (no     *)
(* chunk_index key appears in it), and gives each chunk the key/value pairs of *)
(* its document plus a chunk_index of its own, the position of the chunk in    *)
(* its document.                                                               *)
C27_ChunkMetadataIsACopyPlusIndex ==
    [][ (ingest.pc = "split" /\ ingest'.pc # "split")
        => /\ ingest'.documents = ingest.documents
           /\ \A d \in 1..Len(ingest'.documents) :
                  /\ \A e \in ingest'.documents[d].metadata : e.key # "chunk_index"
                  /\ \A p \in 1..Len(ChunksOfRunFrom(ingest', d)) :
                         ChunksOfRunFrom(ingest', d)[p].metadata =
                             ingest.documents[d].metadata \cup
                                 {Entry("chunk_index", "int", ToString(p - 1))} ]_vars

\* a PDF page with a page number has been split into two chunks
C27_Witness ==
    /\ ingest.pc = "embed"
    /\ \E p, q \in 1..Len(ingest.all_chunks) :
           /\ p # q
           /\ ingest.all_chunks[p].document_id = ingest.all_chunks[q].document_id
           /\ Entry("page", "int", "1") \in ingest.all_chunks[p].metadata
           /\ Entry("chunk_index", "int", "1") \in ingest.all_chunks[p].metadata

(* C28: at the end of a run the count of added chunks is the number of rows    *)
(* the run persisted, which is also the sum of the ids the add calls returned: *)
(* chunks dropped by add's validation, chunks of skipped batches and chunks of *)
(* rolled-back batches are not counted.                                        *)
C28_CountIsPersistedRows ==
    RunOver =>
        /\ ingest.total_chunks_added = Cardinality(rows)
        /\ \A r \in rows :
               \E m \in 1..Len(RunCallsTo("add")) :
                   /\ RunCallsTo("add")[m].n > 0
                   /\ \E j \in 1..Len(RunCallsTo("add")[m].chunks) :
                          /\ RunCallsTo("add")[m].chunks[j].id = r.id
                          /\ IsValidChunk(RunCallsTo("add")[m].chunks[j], embedding_dim)

\* a run ended after add's validation dropped one chunk of a batch of two
C28_Witness ==
    /\ RunOver
    /\ \E m \in 1..Len(RunCallsTo("add")) :
           /\ Len(RunCallsTo("add")[m].chunks) = 2
           /\ RunCallsTo("add")[m].n = 1
    /\ ingest.total_chunks_added >= 1

----------------------------------------------------------------------------
(* Claims about the primary key of the chunks table *)

\* some id of the chunks is the id of a persisted row, or of two of the chunks
RepeatsAnId(chunks, committed) ==
    \/ \E i \in 1..Len(chunks) : \E r \in committed : r.id = chunks[i].id
    \/ \E i, j \in 1..Len(chunks) : i # j /\ chunks[i].id = chunks[j].id

IdsUnique(committed) == \A r1, r2 \in committed : r1.id = r2.id => r1 = r2

\* this step is one whole add call
AddStep == last.op = "none" /\ last'.op = "add"

(* C29 as stated: ids are unique among the persisted rows, and an add whose    *)
(* batch holds an id that is already persisted, or the same id twice, persists *)
(* nothing, returns [] and leaves the rows as they were.                       *)
C29_RepeatedIdPersistsNothing ==
    [][ /\ IdsUnique(rows')
        /\ (AddStep /\ RepeatsAnId(last'.batch, rows))
               => (rows' = rows /\ last'.ret = <<>>) ]_vars

\* the chunks of the batch that add keeps (lines 98-113)
KeptOf(chunks) == SelectSeq(chunks, LAMBDA c : IsValidChunk(c, embedding_dim))

(* C29 amended: ids are unique among the persisted rows, and an add persists   *)
(* nothing, returns [] and leaves the rows as they were when, among the chunks *)
(* of the batch that pass its validation, an id is already persisted or occurs *)
(* twice; so does an add of a batch that a previous add has persisted.         *)
C29_RepeatedValidIdPersistsNothing ==
    [][ /\ IdsUnique(rows')
        /\ (AddStep /\ RepeatsAnId(KeptOf(last'.batch), rows))
               => (rows' = rows /\ last'.ret = <<>>) ]_vars

\* an add of two valid chunks, one of them with a persisted id, has returned []
C29_Witness ==
    /\ last.op = "add"
    /\ Len(KeptOf(last.batch)) = 2
    /\ \E i, j \in 1..2 :
           /\ \E r \in rows : r.id = last.batch[i].id
           /\ \A r \in rows : r.id # last.batch[j].id
    /\ last.ret = <<>>

----------------------------------------------------------------------------
(* Claims about the database sessions of add and query *)

\* the calls that have opened a session and not yet returned
CallsHoldingASession ==
    (IF txn.state = "open" THEN 1 ELSE 0) + (IF last.op = "querying" THEN 1 ELSE 0)

(* C30: the sessions open are those of the calls that passed their validation  *)
(* and have not returned yet: a call that returns, with its result, after a    *)
(* rollback or after a query error, has closed its session, a call that fails  *)
(* validation opens none, and no session is open when no call is in progress.  *)
C30_SessionsClosedOnReturn ==
    /\ openSessions = CallsHoldingASession
    /\ (txn.state # "open" /\ last.op # "querying") => openSessions = 0

\* sessions were opened and closed on the three paths: an add was rolled back
\* and a query met a database error, and no session is left
C30_Witness ==
    /\ txn.state = "rolledback"
    /\ last.op = "query"
    /\ last.dbError
    /\ rows # {}
    /\ openSessions = 0

====
